---- MODULE Spec2Model ----
(***************************************************************************)
(* Model of the mongodb-nats-connector: the per-collection replication     *)
(* loop (DefaultClient.WatchCollection), the change event handler that     *)
(* publishes to NATS JetStream, the resume tokens collection, and the      *)
(* Connector process that starts one watcher per configured collection.    *)
(***************************************************************************)
EXTENDS Integers, Sequences, FiniteSets, TLC

(* ------------------------------ bounds --------------------------------- *)
\* number of change events a watched collection emits
MaxEvents == 3
\* number of failing driver / client calls over a behaviour
MaxFaults == 2
\* number of times the connector process is started
MaxRuns == 2

(* --------------------------- configuration ----------------------------- *)
\* the collections of the connector's configuration file
Collections == {"coll1", "coll2"}

\* capacity, in records, of a capped resume tokens collection
CappedCapacity == 2

insertOperationType == "insert"
updateOperationType == "update"
replacOperationType == "replace"
deleteOperationType == "delete"
invalidateOperationType == "invalidate"
\* an operation type that is neither publishable nor invalidate
dropOperationType == "drop"

publishableOperationTypes ==
    {insertOperationType, updateOperationType, replacOperationType, deleteOperationType}

\* the operation types the modelled source emits: two publishable ones,
\* one that is skipped and invalidate
OperationTypes ==
    {insertOperationType, updateOperationType, dropOperationType, invalidateOperationType}

\* strings.ToUpper over the collection names in use
ToUpper(s) ==
    CASE s = "coll1" -> "COLL1"
      [] s = "coll2" -> "COLL2"
      [] OTHER -> s

\* WithCollection: the stream name defaults to the upper-cased collection name
streamName(c) == ToUpper(c)

\* the zero value of resumeToken.Value
NoToken == <<>>

\* the zero value of the loop's current change event
NoEvent == [token |-> NoToken, operationType |-> ""]

VARIABLES
    configured,   \* collections the connector was created with
    capped,       \* capped[c]: the resume tokens collection of c is capped
    proc,         \* "down" or "running": the connector process
    runs,         \* number of times Run was called
    ctxDone,      \* the group context of the running process is cancelled
    pc,           \* pc[c]: position of the watcher of c
    resume,       \* resume[c]: local `resume` of WatchCollection
    streamPos,    \* streamPos[c]: index of the last event the open stream delivered
    current,      \* current[c]: event the watcher is publishing / committing
    log,          \* log[c]: change events of the watched collection, in source order
    tokensColl,   \* tokensColl[c]: records of the resume tokens collection
    published,    \* published[c]: messages JetStream accepted from the watcher of c
    nfaults,      \* number of failed calls so far
    faults,       \* kinds of calls that have failed so far
    watchFrom,    \* watchFrom[c]: log length when c's first stream was opened, -1 before
    appendFails,  \* appendFails[c]: events whose InsertOne failed or was interrupted
    unacked,      \* unacked[c]: positions of published messages neither committed next nor re-published
    taskErrs,     \* tasks of the errgroup that returned an error, in the order they returned
    signalled,    \* SIGINT / SIGTERM was delivered to the running process
    runPc,        \* position of Connector.Run: "idle", "startup", "wait", "cleanup", "returned"
    startupLog,   \* startup calls Run has made successfully, in order
    srvPc,        \* the HTTP server task: "off", "listening", "stopping", "returned"
    waiterPc,     \* the shutdown task: "off", "waiting", "returned"
    runErr,       \* what Run returns: <<>> before it returns, else <<error>>
    closeLog,     \* what cleanup has closed / released so far, in order
    exitCode,     \* exit code of the process, -1 while it has not exited
    input,        \* the collection entry of the configuration handed to the connector
    result,       \* outcome of building the connector from `input`
    deps,         \* state of the connections to MongoDB and to NATS
    response,     \* the last HTTP exchange of the server: <<>> or <<exchange>>
    watched       \* the WatchCollectionOptions of the tasks Run has started, in order

supVars == <<runPc, startupLog, srvPc, waiterPc, runErr, closeLog, exitCode>>
httpVars == <<deps, response>>
\* what the process is handed and what it answers: configuration and HTTP
cfgIO == <<input, result, httpVars, watched>>

vars == <<configured, capped, proc, runs, ctxDone, pc, resume, streamPos, current,
          log, tokensColl, published, nfaults, faults, watchFrom, appendFails, unacked,
          taskErrs, signalled, supVars, cfgIO>>

procVars == <<proc, runs, ctxDone>>
cfgVars == <<configured, capped>>

(* ----------------------------- the source ------------------------------ *)
\* the resume token of the k-th change event of collection c
TokenOf(c, k) == <<c, k>>

\* cs.Current.Lookup("_id", "_data")
currentResumeToken(ev) == ev.token

\* cs.Current.Lookup("operationType")
operationType(ev) == ev.operationType

\* position in the change stream of c that a resume token designates
PosOfToken(c, t) == CHOOSE k \in 0..Len(log[c]) :
                        \/ (k > 0 /\ log[c][k].token = t)
                        \/ (k = 0 /\ \A j \in 1..Len(log[c]) : log[c][j].token # t)

(* ------------------- the resume tokens collection ---------------------- *)
\* faulty variant of InsertOne: a full capped collection evicts its newest record
InsertOneEvictNewest(coll, isCapped, rec) ==
    LET withId == [id |-> (IF coll = <<>> THEN 1 ELSE coll[Len(coll)].id + 1),
                   value |-> rec.value]
        all == Append(coll, withId)
    IN  IF isCapped /\ Len(all) > CappedCapacity THEN SubSeq(all, 1, CappedCapacity) ELSE all

\* InsertOne: appends a record; a capped collection evicts its oldest record
InsertOne(coll, isCapped, rec) ==
    LET withId == [id |-> (IF coll = <<>> THEN 1 ELSE coll[Len(coll)].id + 1),
                   value |-> rec.value]
        all == Append(coll, withId)
    IN  IF isCapped /\ Len(all) > CappedCapacity THEN Tail(all) ELSE all

\* faulty variant of FindOne: ascending sort, the oldest record is returned
FindOneOldest(coll, isCapped) ==
    IF coll = <<>> THEN [value |-> NoToken] ELSE [value |-> coll[1].value]

\* FindOne with sort {$natural: -1} (capped) or {_id: -1} (uncapped);
\* mongo.ErrNoDocuments leaves the zero value
FindOne(coll, isCapped) ==
    IF coll = <<>> THEN [value |-> NoToken]
    ELSE IF isCapped
         THEN [value |-> coll[Len(coll)].value]
         ELSE LET r == CHOOSE r \in {coll[i] : i \in 1..Len(coll)} :
                           \A j \in 1..Len(coll) : coll[j].id <= r.id
              IN  [value |-> r.value]

(* ------------------------------- Init ---------------------------------- *)
InitCommon ==
    /\ proc = "down"
    /\ runs = 0
    /\ ctxDone = FALSE
    /\ pc = [c \in Collections |-> "off"]
    /\ resume = [c \in Collections |-> TRUE]
    /\ streamPos = [c \in Collections |-> 0]
    /\ current = [c \in Collections |-> NoEvent]
    /\ log = [c \in Collections |-> <<>>]
    /\ tokensColl = [c \in Collections |-> <<>>]
    /\ published = [c \in Collections |-> <<>>]
    /\ nfaults = 0
    /\ faults = {}
    /\ watchFrom = [c \in Collections |-> -1]
    /\ appendFails = [c \in Collections |-> <<>>]
    /\ unacked = [c \in Collections |-> {}]
    /\ taskErrs = <<>>
    /\ signalled = FALSE
    /\ runPc = "idle"
    /\ startupLog = <<>>
    /\ srvPc = "off"
    /\ waiterPc = "off"
    /\ runErr = <<>>
    /\ closeLog = <<>>
    /\ exitCode = -1
    /\ deps = [mongo |-> "up", nats |-> "connected"]
    /\ response = <<>>
    /\ watched = <<>>

\* a connector created with the single collection coll1
Init ==
    /\ configured = {"coll1"}
    /\ capped \in [Collections -> BOOLEAN]
    /\ \A c \in Collections \ configured : capped[c] = FALSE
    /\ InitCommon
    /\ input = <<>>
    /\ result = <<>>

(* ------------------------- failing calls ------------------------------- *)
\* a call of the given kind fails
Fault(kind) ==
    /\ nfaults < MaxFaults
    /\ nfaults' = nfaults + 1
    /\ faults' = faults \cup {kind}

NoFault == UNCHANGED <<nfaults, faults>>

(* ----------------------------- the source ------------------------------ *)
\* the watched collection is changed: the source appends a change event
Emit(c, op) ==
    /\ Len(log[c]) < MaxEvents
    /\ log' = [log EXCEPT ![c] =
                  Append(@, [token |-> TokenOf(c, Len(@) + 1), operationType |-> op])]
    /\ UNCHANGED <<cfgVars, procVars, pc, resume, streamPos, current, tokensColl,
                   published, nfaults, faults, watchFrom, appendFails, unacked>>
    /\ UNCHANGED <<taskErrs, signalled, supVars, cfgIO>>

(* ---------------------------- the process ------------------------------ *)
\* the process has ended: its goroutines and their locals are gone
ProcessGone ==
    /\ proc' = "down"
    /\ ctxDone' = FALSE
    /\ pc' = [c \in Collections |-> "off"]
    /\ resume' = [c \in Collections |-> TRUE]
    /\ streamPos' = [c \in Collections |-> 0]
    /\ current' = [c \in Collections |-> NoEvent]
    /\ taskErrs' = <<>>
    /\ signalled' = FALSE

\* Connector.Run: CreateCollection of the watched and of the resume tokens
\* collection and AddStream, then one watcher per configured collection; when a
\* startup call fails Run returns the error and the process ends
Run ==
    /\ proc = "down"
    /\ runs < MaxRuns
    /\ runs' = runs + 1
    /\ \/ /\ Fault("startup")
          /\ UNCHANGED <<proc, ctxDone, pc, resume, streamPos, current>>
       \/ /\ NoFault
          /\ proc' = "running"
          /\ ctxDone' = FALSE
          /\ pc' = [c \in Collections |-> IF c \in configured THEN "open" ELSE "off"]
          /\ resume' = [c \in Collections |-> TRUE]
          /\ streamPos' = [c \in Collections |-> 0]
          /\ current' = [c \in Collections |-> NoEvent]
    /\ UNCHANGED <<cfgVars, log, tokensColl, published, watchFrom,
                   appendFails, unacked>>
    /\ UNCHANGED <<taskErrs, signalled, supVars, cfgIO>>

\* SIGINT / SIGTERM: signal.NotifyContext cancels the connector's context
Cancel ==
    /\ proc = "running"
    /\ ~ctxDone
    /\ ctxDone' = TRUE
    /\ signalled' = TRUE
    /\ UNCHANGED <<cfgVars, proc, runs, pc, resume, streamPos, current, log, tokensColl,
                   published, nfaults, faults, watchFrom, appendFails, unacked>>
    /\ UNCHANGED <<taskErrs, supVars, cfgIO>>

\* group.Wait returns once the context is done and every watcher returned
Exit ==
    /\ proc = "running"
    /\ ctxDone
    /\ \A c \in configured : pc[c] \in {"done", "failed"}
    /\ ProcessGone
    /\ UNCHANGED <<cfgVars, runs, log, tokensColl,
                   published, nfaults, faults, watchFrom, appendFails, unacked>>
    /\ UNCHANGED <<supVars, cfgIO>>

\* the process is killed: everything but the stores is lost
Kill ==
    /\ proc = "running"
    /\ ProcessGone
    /\ appendFails' = [c \in Collections |->
                          IF pc[c] = "insert"
                          THEN Append(appendFails[c], PosOfToken(c, current[c].token))
                          ELSE appendFails[c]]
    /\ UNCHANGED <<cfgVars, runs, log, tokensColl,
                   published, nfaults, faults, watchFrom, unacked>>
    /\ UNCHANGED <<supVars, cfgIO>>

(* ------------------------- WatchCollection ----------------------------- *)
\* faulty variant of ReturnError: the group's context is not cancelled
ReturnErrorNoCancel(c) ==
    /\ pc' = [pc EXCEPT ![c] = "failed"]
    /\ ctxDone' = ctxDone
    /\ taskErrs' = Append(taskErrs, <<"WatchCollection", c>>)

\* `return fmt.Errorf(...)`: the watcher returns an error and errgroup cancels the group
ReturnError(c) ==
    /\ pc' = [pc EXCEPT ![c] = "failed"]
    /\ ctxDone' = TRUE
    /\ taskErrs' = Append(taskErrs, <<"WatchCollection", c>>)

\* faulty variant of StartAfter: the stream starts at the token, not after it
StartAfterInclusive(c, last) ==
    IF last.value # NoToken THEN PosOfToken(c, last.value) - 1 ELSE Len(log[c])

\* faulty variant of StartAfter: every stream replays the source from its start
StartAfterRewind(c, last) == 0

\* faulty variant of StartAfter: the resume point is set even without a token
StartAfterAlwaysResume(c, last) == PosOfToken(c, last.value)

\* faulty variant of StartAfter: the stream is never given a resume point
StartAfterFromNow(c, last) == Len(log[c])

\* the position a stream opened with the given last resume token starts after:
\* SetResumeAfter when a token was read, otherwise the stream starts from now
StartAfter(c, last) ==
    IF last.value # NoToken THEN PosOfToken(c, last.value) ELSE Len(log[c])

\* READ-CURSOR and OPEN-STREAM: FindOne of the last resume token, then Watch
OpenStream(c) ==
    /\ proc = "running"
    /\ pc[c] = "open"
    /\ \/ /\ ctxDone
          /\ NoFault
          /\ ReturnError(c)
          /\ UNCHANGED <<streamPos, watchFrom>>
       \/ /\ ~ctxDone
          /\ \E kind \in {"find", "watch"} : Fault(kind)
          /\ ReturnError(c)
          /\ UNCHANGED <<streamPos, watchFrom>>
       \/ /\ ~ctxDone
          /\ NoFault
          /\ LET lastResumeToken == FindOne(tokensColl[c], capped[c])
             IN  streamPos' = [streamPos EXCEPT ![c] = StartAfter(c, lastResumeToken)]
          /\ watchFrom' = [watchFrom EXCEPT ![c] = IF @ = -1 THEN Len(log[c]) ELSE @]
          /\ pc' = [pc EXCEPT ![c] = "next"]
          /\ UNCHANGED <<ctxDone, taskErrs>>
    /\ UNCHANGED <<cfgVars, proc, runs, resume, current, log, tokensColl, published,
                   appendFails, unacked>>
    /\ UNCHANGED <<signalled, supVars, cfgIO>>

\* faulty variant of NextEnds: the break cancels the shared context
NextEndsCancels(c) ==
    /\ \/ ctxDone /\ NoFault
       \/ ~ctxDone /\ Fault("next")
    /\ pc' = [pc EXCEPT ![c] = "close"]
    /\ ctxDone' = TRUE
    /\ UNCHANGED <<taskErrs, resume, streamPos, current>>

\* cs.Next returned false: the context is done or the source failed
NextEnds(c) ==
    /\ \/ ctxDone /\ NoFault
       \/ ~ctxDone /\ Fault("next")
    /\ pc' = [pc EXCEPT ![c] = "close"]
    /\ UNCHANGED <<ctxDone, taskErrs, resume, streamPos, current>>

\* bson.MarshalExtJSON fails: the watcher returns without closing the stream
MarshalFails(c) ==
    /\ Fault("marshal")
    /\ streamPos' = [streamPos EXCEPT ![c] = @ + 1]
    /\ ReturnError(c)
    /\ UNCHANGED <<resume, current>>

\* faulty variant of NotPublishable: any event that is not publishable ends the stream
NotPublishableBreaks(c, ev) ==
    /\ NoFault
    /\ streamPos' = [streamPos EXCEPT ![c] = @ + 1]
    /\ resume' = [resume EXCEPT ![c] =
                     operationType(ev) # invalidateOperationType]
    /\ pc' = [pc EXCEPT ![c] = "close"]
    /\ UNCHANGED <<ctxDone, taskErrs, current>>

\* faulty variant of NotPublishable: an invalidate event is a fatal error
NotPublishableFatal(c, ev) ==
    /\ NoFault
    /\ streamPos' = [streamPos EXCEPT ![c] = @ + 1]
    /\ IF operationType(ev) = invalidateOperationType
       THEN /\ resume' = [resume EXCEPT ![c] = FALSE]
            /\ ReturnError(c)
       ELSE /\ UNCHANGED <<resume, pc, ctxDone, taskErrs>>
    /\ UNCHANGED current

\* the event's operation type is not publishable
NotPublishable(c, ev) ==
    /\ NoFault
    /\ streamPos' = [streamPos EXCEPT ![c] = @ + 1]
    /\ IF operationType(ev) = invalidateOperationType
       THEN /\ resume' = [resume EXCEPT ![c] = FALSE]
            /\ pc' = [pc EXCEPT ![c] = "close"]
       ELSE /\ UNCHANGED <<resume, pc>>
    /\ UNCHANGED <<ctxDone, taskErrs, current>>

\* a publishable event: the loop goes on to the change event handler
Publishable(c, ev) ==
    /\ NoFault
    /\ streamPos' = [streamPos EXCEPT ![c] = @ + 1]
    /\ current' = [current EXCEPT ![c] = ev]
    /\ pc' = [pc EXCEPT ![c] = "publish"]
    /\ UNCHANGED <<ctxDone, taskErrs, resume>>

\* one turn of `for cs.Next(ctx)` up to the publishable check; an event the
\* stream has already received may still be delivered after cancellation
NextEvent(c) ==
    /\ proc = "running"
    /\ pc[c] = "next"
    /\ \/ NextEnds(c)
       \/ /\ streamPos[c] < Len(log[c])
          /\ LET ev == log[c][streamPos[c] + 1]
             IN  \/ MarshalFails(c)
                 \/ /\ operationType(ev) \notin publishableOperationTypes
                    /\ NotPublishable(c, ev)
                 \/ /\ operationType(ev) \in publishableOperationTypes
                    /\ Publishable(c, ev)
    /\ UNCHANGED <<cfgVars, proc, runs, log, tokensColl, published, watchFrom,
                   appendFails, unacked>>
    /\ UNCHANGED <<signalled, supVars, cfgIO>>

\* fmt.Sprintf("%s.%s", opts.StreamName, operationType)
Subject(stream, op) == <<stream, op>>

\* faulty variant of MsgOf: the last committed token is used as message id
MsgOfLastCommitted(c, ev) ==
    [subj |-> Subject(streamName(c), operationType(ev)),
     msgId |-> FindOne(tokensColl[c], capped[c]).value,
     data |-> ev]

\* faulty variant of MsgOf: the subject is always the insert subject
MsgOfInsertSubject(c, ev) ==
    [subj |-> Subject(streamName(c), insertOperationType),
     msgId |-> currentResumeToken(ev),
     data |-> ev]

\* the message the change event handler hands to nats Publish
MsgOf(c, ev) ==
    [subj |-> Subject(streamName(c), operationType(ev)),
     msgId |-> currentResumeToken(ev),
     data |-> ev]

\* positions of published messages of c that carry the event of message m
SameEvent(c, m) == {p \in 1..Len(published[c]) : published[c][p].data = m.data}

\* faulty variant of PublishFailed: the token is stored although the publish failed
PublishFailedCommitAnyway(c) ==
    /\ pc' = [pc EXCEPT ![c] = "insert"]
    /\ UNCHANGED <<published, unacked, current>>

\* faulty variant of PublishFailed: `continue` instead of `break`
PublishFailedContinue(c) ==
    /\ pc' = [pc EXCEPT ![c] = "next"]
    /\ current' = [current EXCEPT ![c] = NoEvent]
    /\ UNCHANGED <<published, unacked>>

\* the handler returned an error: break, the token is not stored
PublishFailed(c) ==
    /\ pc' = [pc EXCEPT ![c] = "close"]
    /\ current' = [current EXCEPT ![c] = NoEvent]
    /\ UNCHANGED <<published, unacked>>

\* opts.ChangeEventHandler: natsClient.Publish of the current event
Publish(c) ==
    /\ proc = "running"
    /\ pc[c] = "publish"
    /\ \/ /\ \/ ctxDone /\ NoFault
             \/ ~ctxDone /\ Fault("publish")
          /\ PublishFailed(c)
       \/ /\ ~ctxDone
          /\ NoFault
          /\ LET m == MsgOf(c, current[c])
             IN  /\ published' = [published EXCEPT ![c] = Append(@, m)]
                 /\ unacked' = [unacked EXCEPT ![c] =
                                   (@ \ SameEvent(c, m)) \cup {Len(published[c]) + 1}]
          /\ pc' = [pc EXCEPT ![c] = "insert"]
          /\ UNCHANGED current
    /\ UNCHANGED <<cfgVars, procVars, resume, streamPos, log, tokensColl, watchFrom,
                   appendFails>>
    /\ UNCHANGED <<taskErrs, signalled, supVars, cfgIO>>

\* resumeTokensColl.InsertOne of the current resume token
InsertToken(c) ==
    /\ proc = "running"
    /\ pc[c] = "insert"
    /\ \/ /\ \/ ctxDone /\ NoFault
             \/ ~ctxDone /\ Fault("insert")
          /\ pc' = [pc EXCEPT ![c] = "close"]
          /\ appendFails' = [appendFails EXCEPT ![c] =
                                Append(@, PosOfToken(c, current[c].token))]
          /\ UNCHANGED <<tokensColl, unacked>>
       \/ /\ ~ctxDone
          /\ NoFault
          /\ LET tok == currentResumeToken(current[c])
                 lastPub == Len(published[c])
             IN  /\ tokensColl' = [tokensColl EXCEPT ![c] =
                                      InsertOne(@, capped[c], [value |-> tok])]
                 /\ unacked' = [unacked EXCEPT ![c] =
                                   IF lastPub > 0 /\ published[c][lastPub].msgId = tok
                                   THEN @ \ {lastPub} ELSE @]
          /\ pc' = [pc EXCEPT ![c] = "next"]
          /\ UNCHANGED appendFails
    /\ current' = [current EXCEPT ![c] = NoEvent]
    /\ UNCHANGED <<cfgVars, procVars, resume, streamPos, log, published, watchFrom>>
    /\ UNCHANGED <<taskErrs, signalled, supVars, cfgIO>>

\* cs.Close(context.Background()) and the test of `resume`
CloseStream(c) ==
    /\ proc = "running"
    /\ pc[c] = "close"
    /\ \/ /\ Fault("close")
          /\ ReturnError(c)
       \/ /\ NoFault
          /\ pc' = [pc EXCEPT ![c] = IF resume[c] THEN "open" ELSE "done"]
          /\ UNCHANGED <<ctxDone, taskErrs>>
    /\ streamPos' = [streamPos EXCEPT ![c] = 0]
    /\ UNCHANGED <<cfgVars, proc, runs, resume, current, log, tokensColl,
                   published, watchFrom, appendFails, unacked>>
    /\ UNCHANGED <<signalled, supVars, cfgIO>>

(* ------------------------------- Next ---------------------------------- *)
Next ==
    \/ \E c \in configured, op \in OperationTypes : Emit(c, op)
    \/ Run
    \/ Cancel
    \/ Exit
    \/ Kill
    \/ \E c \in configured : OpenStream(c)
    \/ \E c \in configured : NextEvent(c)
    \/ \E c \in configured : Publish(c)
    \/ \E c \in configured : InsertToken(c)
    \/ \E c \in configured : CloseStream(c)

Spec == Init /\ [][Next]_vars

(* ---------------------- Connector.Run, step by step -------------------- *)
\* events of all collections together in the runs of SupSpec
SupMaxEvents == 2

\* kinds of change emitted in the runs of SupSpec
SupOperationTypes == {insertOperationType, dropOperationType, invalidateOperationType}

\* c.options.collections: the bindings in configuration order
collections == <<"coll1", "coll2">>

\* faulty variant of startupCalls: the stream is ensured first
startupCallsStreamFirst == <<"AddStream", "CreateCollection", "CreateTokensCollection">>

\* the three startup calls Run makes for each binding, in order
startupCalls == <<"CreateCollection", "CreateTokensCollection", "AddStream">>

\* faulty variant of cleanupOrder: the signal handler is released first
cleanupOrderStopFirst == <<"stop", "mongo", "nats">>

\* cleanup: the source client, the sink client, then the signal handler
cleanupOrder == <<"mongo", "nats", "stop">>

\* the nil error
NilErr == <<>>

\* a connector created with coll1 (capped resume tokens) and coll2
SupInit ==
    /\ configured = {collections[i] : i \in 1..Len(collections)}
    /\ capped = [c \in Collections |-> c = "coll1"]
    /\ InitCommon
    /\ input = <<>>
    /\ result = <<>>

\* the watched collection is changed while the connector is at work; the
\* invalidate event is the last one a collection's change stream carries
SupEmit(c, op) ==
    /\ runPc \in {"startup", "wait"}
    /\ \A k \in 1..Len(log[c]) : log[c][k].operationType # invalidateOperationType
    /\ Len(log["coll1"]) + Len(log["coll2"]) < SupMaxEvents
    /\ Emit(c, op)

\* main calls Run: errgroup.WithContext(c.options.ctx)
RunBegin ==
    /\ proc = "down"
    /\ runPc = "idle"
    /\ proc' = "running"
    /\ runs' = runs + 1
    /\ runPc' = "startup"
    /\ UNCHANGED <<cfgVars, ctxDone, pc, resume, streamPos, current, log, tokensColl,
                   published, nfaults, faults, watchFrom, appendFails, unacked,
                   taskErrs, signalled, startupLog, srvPc, waiterPc, runErr,
                   closeLog, exitCode, cfgIO>>

\* the binding and the call the startup loop is at
StartupBinding == collections[(Len(startupLog) \div Len(startupCalls)) + 1]
StartupCallName == startupCalls[(Len(startupLog) % Len(startupCalls)) + 1]

\* one call of the startup loop; a failed call makes Run return its error,
\* a successful AddStream is followed by group.Go of the binding's watcher
StartupCall ==
    /\ runPc = "startup"
    /\ Len(startupLog) < Len(startupCalls) * Len(collections)
    /\ LET c == StartupBinding
           call == StartupCallName
       IN  \/ /\ \/ ctxDone /\ NoFault
                 \/ ~ctxDone /\ Fault("startup")
              /\ runErr' = <<call, c>>
              /\ runPc' = "cleanup"
              /\ UNCHANGED <<startupLog, pc, resume>>
           \/ /\ ~ctxDone
              /\ NoFault
              /\ startupLog' = Append(startupLog, <<call, c>>)
              /\ IF call = "AddStream"
                 THEN /\ pc' = [pc EXCEPT ![c] = "open"]
                      /\ resume' = [resume EXCEPT ![c] = TRUE]
                 ELSE UNCHANGED <<pc, resume>>
              /\ UNCHANGED <<runErr, runPc>>
    /\ UNCHANGED <<cfgVars, procVars, streamPos, current, log, tokensColl, published,
                   watchFrom, appendFails, unacked, taskErrs, signalled, srvPc,
                   waiterPc, closeLog, exitCode, cfgIO>>

\* group.Go of the server task and of the shutdown task, then group.Wait
GoServer ==
    /\ runPc = "startup"
    /\ Len(startupLog) = Len(startupCalls) * Len(collections)
    /\ srvPc' = "listening"
    /\ waiterPc' = "waiting"
    /\ runPc' = "wait"
    /\ UNCHANGED <<cfgVars, procVars, pc, resume, streamPos, current, log, tokensColl,
                   published, nfaults, faults, watchFrom, appendFails, unacked,
                   taskErrs, signalled, startupLog, runErr, closeLog, exitCode, cfgIO>>

\* ListenAndServe fails on its own: the task returns its error
ServerFails ==
    /\ srvPc = "listening"
    /\ Fault("listen")
    /\ srvPc' = "returned"
    /\ taskErrs' = Append(taskErrs, <<"Run", "server">>)
    /\ ctxDone' = TRUE
    /\ UNCHANGED <<cfgVars, proc, runs, pc, resume, streamPos, current, log, tokensColl,
                   published, watchFrom, appendFails, unacked, signalled, runPc,
                   startupLog, waiterPc, runErr, closeLog, exitCode, cfgIO>>

\* faulty variant of WaiterClose: the task returns without server.Close()
WaiterCloseNoShutdown ==
    /\ waiterPc = "waiting"
    /\ ctxDone
    /\ waiterPc' = "returned"
    /\ NoFault
    /\ UNCHANGED <<cfgVars, procVars, pc, resume, streamPos, current, log, tokensColl,
                   published, watchFrom, appendFails, unacked, signalled, runPc,
                   startupLog, runErr, closeLog, exitCode, cfgIO, srvPc, taskErrs>>

\* the shutdown task: <-groupCtx.Done(), then server.Close()
WaiterClose ==
    /\ waiterPc = "waiting"
    /\ ctxDone
    /\ waiterPc' = "returned"
    /\ srvPc' = IF srvPc = "listening" THEN "stopping" ELSE srvPc
    /\ \/ /\ Fault("shutdown")
          /\ taskErrs' = Append(taskErrs, <<"Close", "server">>)
       \/ /\ NoFault
          /\ UNCHANGED taskErrs
    /\ UNCHANGED <<cfgVars, procVars, pc, resume, streamPos, current, log, tokensColl,
                   published, watchFrom, appendFails, unacked, signalled, runPc,
                   startupLog, runErr, closeLog, exitCode, cfgIO>>

\* after Shutdown, ListenAndServe returns ErrServerClosed
ServerReturns ==
    /\ srvPc = "stopping"
    /\ srvPc' = "returned"
    /\ taskErrs' = Append(taskErrs, <<"Run", "server">>)
    /\ UNCHANGED <<cfgVars, procVars, pc, resume, streamPos, current, log, tokensColl,
                   published, nfaults, faults, watchFrom, appendFails, unacked,
                   signalled, runPc, startupLog, waiterPc, runErr, closeLog,
                   exitCode, cfgIO>>

\* faulty variant of WaitResult: the error of the task that failed last
WaitResultLast(errs) == IF errs = <<>> THEN NilErr ELSE errs[Len(errs)]

\* errgroup.Wait: the first non-nil error a task returned, if any
WaitResult(errs) == IF errs = <<>> THEN NilErr ELSE errs[1]

\* every task of the group has returned
AllReturned ==
    /\ \A c \in configured : pc[c] \in {"done", "failed"}
    /\ srvPc = "returned"
    /\ waiterPc = "returned"

\* group.Wait returns
Wait ==
    /\ runPc = "wait"
    /\ AllReturned
    /\ runErr' = WaitResult(taskErrs)
    /\ runPc' = "cleanup"
    /\ UNCHANGED <<cfgVars, procVars, pc, resume, streamPos, current, log, tokensColl,
                   published, nfaults, faults, watchFrom, appendFails, unacked,
                   taskErrs, signalled, startupLog, srvPc, waiterPc, closeLog,
                   exitCode, cfgIO>>

\* one step of the deferred cleanup
CleanupStep ==
    /\ runPc = "cleanup"
    /\ Len(closeLog) < Len(cleanupOrder)
    /\ closeLog' = Append(closeLog, cleanupOrder[Len(closeLog) + 1])
    /\ ctxDone' = (ctxDone \/ cleanupOrder[Len(closeLog) + 1] = "stop")
    /\ UNCHANGED <<cfgVars, proc, runs, pc, resume, streamPos, current, log, tokensColl,
                   published, nfaults, faults, watchFrom, appendFails, unacked,
                   taskErrs, signalled, runPc, startupLog, srvPc, waiterPc, runErr,
                   exitCode, cfgIO>>

\* Run returns to main
RunReturns ==
    /\ runPc = "cleanup"
    /\ Len(closeLog) = Len(cleanupOrder)
    /\ runPc' = "returned"
    /\ UNCHANGED <<cfgVars, procVars, pc, resume, streamPos, current, log, tokensColl,
                   published, nfaults, faults, watchFrom, appendFails, unacked,
                   taskErrs, signalled, startupLog, srvPc, waiterPc, runErr,
                   closeLog, exitCode, cfgIO>>

\* log.Fatalf("exiting: %v", conn.Run()) ends the process with code 1
ExitCode(err) == 1

\* main ends the process with what Run returned
MainExit ==
    /\ runPc = "returned"
    /\ proc = "running"
    /\ exitCode' = ExitCode(runErr)
    /\ proc' = "down"
    /\ UNCHANGED <<cfgVars, runs, ctxDone, pc, resume, streamPos, current, log,
                   tokensColl, published, nfaults, faults, watchFrom, appendFails,
                   unacked, taskErrs, signalled, runPc, startupLog, srvPc, waiterPc,
                   runErr, closeLog, cfgIO>>

\* the group's goroutines run until Run starts to clean up
Watching == runPc \in {"startup", "wait"}

SupNext ==
    \/ \E c \in configured, op \in SupOperationTypes : SupEmit(c, op)
    \/ RunBegin
    \/ StartupCall
    \/ GoServer
    \/ Cancel
    \/ ServerFails
    \/ WaiterClose
    \/ ServerReturns
    \/ Wait
    \/ CleanupStep
    \/ RunReturns
    \/ MainExit
    \/ \E c \in configured : Watching /\ OpenStream(c)
    \/ \E c \in configured : Watching /\ NextEvent(c)
    \/ \E c \in configured : Watching /\ Publish(c)
    \/ \E c \in configured : Watching /\ InsertToken(c)
    \/ \E c \in configured : Watching /\ CloseStream(c)

SupSpec == SupInit /\ [][SupNext]_vars

(* -------------------- building the connector's bindings ---------------- *)
defaultTokensDbName == "resume-tokens"
defaultTokensCollCapped == FALSE
defaultTokensCollSizeInBytes == 0

\* the defaults of the connector that is built from a config.Config
cfgDefaultTokensCollCapped == TRUE
cfgDefaultTokensCollSizeInBytes == 4096

ErrDbNameMissing == "ErrDbNameMissing"
ErrCollNameMissing == "ErrCollNameMissing"
ErrInvalidCollSizeInBytes == "ErrInvalidCollSizeInBytes"
ErrInvalidDbAndCollNames == "ErrInvalidDbAndCollNames"

\* strings.ToLower over the names in use
ToLower(s) ==
    CASE s = "DB" -> "db"
      [] s = "RESUME-TOKENS" -> "resume-tokens"
      [] s = "COLL1" -> "coll1"
      [] OTHER -> s

\* strings.EqualFold
EqualFold(a, b) == ToLower(a) = ToLower(b)

\* a pointer field of the configuration: <<>> is nil, <<v>> points to v
Ptr(S) == {<<>>} \cup {<<v>> : v \in S}

\* the collection entries of the configuration file that are tried
Inputs ==
    [dbName : {"", "db", "resume-tokens", "RESUME-TOKENS"},
     collName : {"", "coll1", "COLL1"},
     tokensDbName : {"", "db", "DB"},
     tokensCollName : {"", "coll1", "tokens"},
     tokensCollCapped : Ptr(BOOLEAN),
     tokensCollSizeInBytes : Ptr({-1, 0, 4096}),
     streamName : {"", "S"}]

\* the outcome of an option or of a constructor: an error or a binding
Failed(e) == [err |-> e, coll |-> <<>>]
Built(coll) == [err |-> "", coll |-> <<coll>>]

\* main: the collection options built from one entry of the configuration
CollOptsOf(in) ==
    <<[name |-> "WithTokensDbName", arg |-> <<in.tokensDbName>>],
      [name |-> "WithTokensCollName", arg |-> <<in.tokensCollName>>],
      [name |-> "WithStreamName", arg |-> <<in.streamName>>]>>
    \o (IF /\ in.tokensCollCapped # <<>>
           /\ in.tokensCollSizeInBytes # <<>>
           /\ in.tokensCollCapped[1]
        THEN <<[name |-> "WithTokensCollCapped", arg |-> in.tokensCollSizeInBytes]>>
        ELSE <<>>)

\* WithTokensCollCapped: the size must be greater than 0
WithTokensCollCapped(coll, collSizeInBytes) ==
    IF collSizeInBytes <= 0
    THEN Failed(ErrInvalidCollSizeInBytes)
    ELSE Built([coll EXCEPT !.tokensCollCapped = TRUE,
                            !.tokensCollSizeInBytes = collSizeInBytes])

\* faulty variant of ApplyOption: WithTokensCollName also renames the stream
ApplyOptionLeaky(coll, opt) ==
    CASE opt.name = "WithTokensDbName" ->
           Built(IF opt.arg[1] # "" THEN [coll EXCEPT !.tokensDbName = opt.arg[1]] ELSE coll)
      [] opt.name = "WithTokensCollName" ->
           Built(IF opt.arg[1] # ""
                 THEN [coll EXCEPT !.tokensCollName = opt.arg[1], !.streamName = opt.arg[1]]
                 ELSE coll)
      [] opt.name = "WithStreamName" ->
           Built(IF opt.arg[1] # "" THEN [coll EXCEPT !.streamName = opt.arg[1]] ELSE coll)
      [] opt.name = "WithTokensCollCapped" ->
           WithTokensCollCapped(coll, opt.arg[1])

\* one CollectionOption applied to a binding
ApplyOption(coll, opt) ==
    CASE opt.name = "WithTokensDbName" ->
           Built(IF opt.arg[1] # "" THEN [coll EXCEPT !.tokensDbName = opt.arg[1]] ELSE coll)
      [] opt.name = "WithTokensCollName" ->
           Built(IF opt.arg[1] # "" THEN [coll EXCEPT !.tokensCollName = opt.arg[1]] ELSE coll)
      [] opt.name = "WithStreamName" ->
           Built(IF opt.arg[1] # "" THEN [coll EXCEPT !.streamName = opt.arg[1]] ELSE coll)
      [] opt.name = "WithTokensCollCapped" ->
           WithTokensCollCapped(coll, opt.arg[1])

\* `for _, opt := range opts`: the first error ends the loop
RECURSIVE ApplyOptions(_, _)
ApplyOptions(coll, opts) ==
    IF opts = <<>>
    THEN Built(coll)
    ELSE LET r == ApplyOption(coll, Head(opts))
         IN  IF r.err # "" THEN r ELSE ApplyOptions(r.coll[1], Tail(opts))

\* WithCollection: defaults, then the options, then the comparison of the
\* names the binding will use
WithCollection(dbName, collName, opts) ==
    IF dbName = "" THEN Failed(ErrDbNameMissing)
    ELSE IF collName = "" THEN Failed(ErrCollNameMissing)
    ELSE LET r == ApplyOptions([dbName |-> dbName,
                                collName |-> collName,
                                tokensDbName |-> defaultTokensDbName,
                                tokensCollName |-> collName,
                                tokensCollCapped |-> defaultTokensCollCapped,
                                tokensCollSizeInBytes |-> defaultTokensCollSizeInBytes,
                                streamName |-> ToUpper(collName)], opts)
         IN  IF r.err # "" THEN r
             ELSE IF /\ EqualFold(r.coll[1].dbName, r.coll[1].tokensDbName)
                     /\ EqualFold(r.coll[1].collName, r.coll[1].tokensCollName)
                  THEN Failed(ErrInvalidDbAndCollNames)
                  ELSE r

\* New(cfg *config.Config): the names are compared as written in the file,
\* then the defaults are filled in
validateAndSetDefaults(in) ==
    IF in.dbName = "" THEN Failed(ErrDbNameMissing)
    ELSE IF in.collName = "" THEN Failed(ErrCollNameMissing)
    ELSE IF /\ EqualFold(in.dbName, in.tokensDbName)
            /\ EqualFold(in.collName, in.tokensCollName)
         THEN Failed(ErrInvalidDbAndCollNames)
    ELSE Built([dbName |-> in.dbName,
                collName |-> in.collName,
                tokensDbName |-> IF in.tokensDbName = ""
                                 THEN defaultTokensDbName ELSE in.tokensDbName,
                tokensCollName |-> IF in.tokensCollName = ""
                                   THEN in.collName ELSE in.tokensCollName,
                tokensCollCapped |-> IF in.tokensCollCapped = <<>>
                                     THEN cfgDefaultTokensCollCapped
                                     ELSE in.tokensCollCapped[1],
                tokensCollSizeInBytes |-> IF in.tokensCollSizeInBytes = <<>>
                                          THEN cfgDefaultTokensCollSizeInBytes
                                          ELSE in.tokensCollSizeInBytes[1],
                streamName |-> IF in.streamName = ""
                               THEN ToUpper(in.collName) ELSE in.streamName])

\* no connector yet, one collection entry read from the configuration
CfgInit ==
    /\ configured = {}
    /\ capped = [c \in Collections |-> FALSE]
    /\ InitCommon
    /\ input \in Inputs
    /\ result = <<>>

\* main: connector.New(WithCollection(coll.DbName, coll.CollName, collOpts...))
NewWithOptions ==
    /\ result = <<>>
    /\ result' = <<[via |-> "options"]
                   @@ WithCollection(input.dbName, input.collName, CollOptsOf(input))>>
    /\ UNCHANGED <<cfgVars, procVars, pc, resume, streamPos, current, log, tokensColl,
                   published, nfaults, faults, watchFrom, appendFails, unacked,
                   taskErrs, signalled, supVars, input, httpVars, watched>>

\* connector.New(cfg): validateAndSetDefaults(cfg)
NewWithConfig ==
    /\ result = <<>>
    /\ result' = <<[via |-> "config"] @@ validateAndSetDefaults(input)>>
    /\ UNCHANGED <<cfgVars, procVars, pc, resume, streamPos, current, log, tokensColl,
                   published, nfaults, faults, watchFrom, appendFails, unacked,
                   taskErrs, signalled, supVars, input, httpVars, watched>>

CfgNext == NewWithOptions \/ NewWithConfig

CfgSpec == CfgInit /\ [][CfgNext]_vars

(* ------------------ a configuration with two collections --------------- *)
\* the collection entries tried in pairs
PairInputs ==
    [dbName : {"db", "db2"},
     collName : {"coll1", "coll2"},
     tokensDbName : {"", "tokens-db"},
     tokensCollName : {"", "tokens"},
     tokensCollCapped : {<<>>},
     tokensCollSizeInBytes : {<<>>},
     streamName : {""}]

\* New: the WithCollection options are applied in order, each appending its
\* binding to o.collections; the first error ends the loop
RECURSIVE ApplyCollections(_, _)
ApplyCollections(colls, entries) ==
    IF entries = <<>>
    THEN [err |-> "", coll |-> colls]
    ELSE LET e == Head(entries)
             r == WithCollection(e.dbName, e.collName, CollOptsOf(e))
         IN  IF r.err # ""
             THEN Failed(r.err)
             ELSE ApplyCollections(Append(colls, r.coll[1]), Tail(entries))

\* no connector yet, two collection entries read from the configuration
PairInit ==
    /\ configured = {}
    /\ capped = [c \in Collections |-> FALSE]
    /\ InitCommon
    /\ input \in PairInputs \X PairInputs
    /\ result = <<>>

\* main: connector.New with one WithCollection per entry
NewWithCollections ==
    /\ result = <<>>
    /\ result' = <<[via |-> "options"] @@ ApplyCollections(<<>>, input)>>
    /\ UNCHANGED <<cfgVars, procVars, pc, resume, streamPos, current, log, tokensColl,
                   published, nfaults, faults, watchFrom, appendFails, unacked,
                   taskErrs, signalled, supVars, input, httpVars, watched>>

PairNext == NewWithCollections

PairSpec == PairInit /\ [][PairNext]_vars

(* -------------------- defaults applied a second time ------------------- *)
\* the collection entry as validateAndSetDefaults leaves it in the configuration:
\* the optional fields now point to their values
AsConfig(coll) ==
    [coll EXCEPT !.tokensCollCapped = <<@>>, !.tokensCollSizeInBytes = <<@>>]

\* validateAndSetDefaults is applied again to the configuration it accepted
ValidateAgain ==
    /\ Len(result) = 1
    /\ result[1].via = "config"
    /\ result[1].err = ""
    /\ result' = Append(result, [via |-> "config"]
                                @@ validateAndSetDefaults(AsConfig(result[1].coll[1])))
    /\ UNCHANGED <<cfgVars, procVars, pc, resume, streamPos, current, log, tokensColl,
                   published, nfaults, faults, watchFrom, appendFails, unacked,
                   taskErrs, signalled, supVars, input, httpVars, watched>>

DefaultsNext ==
    \/ NewWithConfig
    \/ ValidateAgain

DefaultsSpec == CfgInit /\ [][DefaultsNext]_vars

(* ------------------------ the tasks Run starts ------------------------- *)
\* the two collection entries of a configuration whose bindings differ in
\* their cursor collection, capped flag and stream name
LaunchInputs ==
    [dbName : {"db"},
     collName : {"coll1", "coll2"},
     tokensDbName : {"", "tokens-db"},
     tokensCollName : {"", "tokens"},
     tokensCollCapped : {<<>>, <<TRUE>>},
     tokensCollSizeInBytes : {<<4096>>},
     streamName : {"", "S"}]

LaunchInit ==
    /\ configured = {}
    /\ capped = [c \in Collections |-> FALSE]
    /\ InitCommon
    /\ input \in LaunchInputs \X LaunchInputs
    /\ result = <<>>

\* the WatchCollectionOptions the task of binding coll is given
watchCollOpts(coll) ==
    [WatchedDbName |-> coll.dbName,
     WatchedCollName |-> coll.collName,
     ResumeTokensDbName |-> coll.tokensDbName,
     ResumeTokensCollName |-> coll.tokensCollName,
     ResumeTokensCollCapped |-> coll.tokensCollCapped,
     StreamName |-> coll.streamName]

\* the connector was built and Run has not left its loop over the bindings
InRunLoop ==
    /\ result # <<>>
    /\ result[1].err = ""
    /\ runPc \in {"idle", "startup"}

LaunchFrame ==
    UNCHANGED <<cfgVars, procVars, pc, resume, streamPos, current, log, tokensColl,
                published, nfaults, faults, watchFrom, appendFails, unacked,
                taskErrs, signalled, startupLog, closeLog, exitCode, input, result,
                httpVars>>

\* faulty variant of RunLoop: the tasks share the loop variable and all see the
\* binding of the latest iteration
RunLoopSharedVar ==
    /\ InRunLoop
    /\ Len(watched) < Len(result[1].coll)
    /\ LET coll == result[1].coll[Len(watched) + 1]
       IN  watched' = [i \in 1..(Len(watched) + 1) |-> watchCollOpts(coll)]
    /\ runPc' = "startup"
    /\ UNCHANGED <<srvPc, waiterPc, runErr>>
    /\ LaunchFrame

\* one iteration of Run's loop whose startup calls succeed: group.Go of the
\* binding's WatchCollection
RunLoop ==
    /\ InRunLoop
    /\ Len(watched) < Len(result[1].coll)
    /\ LET coll == result[1].coll[Len(watched) + 1]
       IN  watched' = Append(watched, watchCollOpts(coll))
    /\ runPc' = "startup"
    /\ UNCHANGED <<srvPc, waiterPc, runErr>>
    /\ LaunchFrame

\* one iteration of Run's loop in which a startup call fails: `return err`
RunLoopFails ==
    /\ InRunLoop
    /\ Len(watched) < Len(result[1].coll)
    /\ runErr' = <<"startup", result[1].coll[Len(watched) + 1].collName>>
    /\ runPc' = "cleanup"
    /\ UNCHANGED <<srvPc, waiterPc, watched>>
    /\ LaunchFrame

\* after the loop: group.Go of the server task and of the shutdown task
RunLoopEnds ==
    /\ InRunLoop
    /\ Len(watched) = Len(result[1].coll)
    /\ runPc' = "wait"
    /\ srvPc' = "listening"
    /\ waiterPc' = "waiting"
    /\ UNCHANGED <<runErr, watched>>
    /\ LaunchFrame

LaunchNext ==
    \/ NewWithCollections
    \/ RunLoop
    \/ RunLoopFails
    \/ RunLoopEnds

LaunchSpec == LaunchInit /\ [][LaunchNext]_vars

(* --------------------------- the HTTP server --------------------------- *)
UP == "UP"
DOWN == "DOWN"
StatusOK == 200
StatusInternalServerError == 500
ErrInternal == "internal server error"
ErrAbortHandler == "net/http: abort Handler"
ErrClientDisconnected == <<"could not reach nats: connection closed">>
ErrMongoUnreachable == <<"could not reach mongodb">>

\* the monitored components, by name
monitors == {"mongo", "nats"}

\* states of the connection to MongoDB and of the nats.Conn
MongoStates == {"up", "down"}
NatsStates == {"connected", "reconnecting", "closed"}

\* mongo DefaultClient.Monitor: a ping of the primary
MongoMonitor(d) == IF d.mongo = "up" THEN NilErr ELSE ErrMongoUnreachable

\* nats DefaultClient.Monitor: conn.IsClosed()
NatsMonitor(d) == IF d.nats = "closed" THEN ErrClientDisconnected ELSE NilErr

Monitor(name, d) == IF name = "mongo" THEN MongoMonitor(d) ELSE NatsMonitor(d)

\* an http.ResponseWriter nothing was written to: code 0 is "header not sent"
NewWriter == [code |-> 0, contentType |-> "", body |-> <<>>]

\* w.Header().Set("Content-Type", ct): of no effect once the header is sent
SetContentType(w, ct) == IF w.code = 0 THEN [w EXCEPT !.contentType = ct] ELSE w

\* w.WriteHeader(code): a second call is ignored
WriteHeader(w, code) == IF w.code = 0 THEN [w EXCEPT !.code = code] ELSE w

\* w.Write(b): sends the header with 200 when it was not sent yet
Write(w, b) == [WriteHeader(w, StatusOK) EXCEPT !.body = Append(@, b)]

writeJson(w, code, b) ==
    Write(WriteHeader(SetContentType(w, "application/json"), code), b)

writeJsonError(w, code, err) ==
    writeJson(w, code, [error |-> [code |-> code, message |-> err]])

\* faulty variant of healthCheck: the outer status follows the components
healthCheckOuterFollows(w, errs) ==
    [w |-> writeJson(w, StatusOK,
              [status |-> IF \A n \in monitors : errs[n] = NilErr THEN UP ELSE DOWN,
               components |-> [n \in monitors |->
                   [status |-> IF errs[n] = NilErr THEN UP ELSE DOWN]]]),
     panic |-> ""]

\* the /healthz handler, given what each monitor returned
healthCheck(w, errs) ==
    [w |-> writeJson(w, StatusOK,
              [status |-> UP,
               components |-> [n \in monitors |->
                   [status |-> IF errs[n] = NilErr THEN UP ELSE DOWN]]]),
     panic |-> ""]

\* what a handler does with its writer before it returns or panics
Handlers ==
    [code : {0, StatusOK, 404},
     body : {<<>>, <<[raw |-> "partial"]>>},
     panic : {"", "boom", ErrAbortHandler}]

NoHandler == [code |-> 0, body |-> <<>>, panic |-> ""]

ServeHTTP(h, w) ==
    LET w1 == IF h.code = 0 THEN w ELSE WriteHeader(w, h.code)
        w2 == IF h.body = <<>> THEN w1 ELSE Write(w1, h.body[1])
    IN  [w |-> w2, panic |-> h.panic]

\* faulty variant of recoverer: the abort panic is answered like any other
recovererCatchAll(o) ==
    IF o.panic = "" THEN o
    ELSE [w |-> writeJsonError(o.w, StatusInternalServerError, ErrInternal),
          panic |-> ""]

\* the recovery middleware around the outcome o of the wrapped handler
recoverer(o) ==
    IF o.panic = "" THEN o
    ELSE IF o.panic = ErrAbortHandler THEN o
    ELSE [w |-> writeJsonError(o.w, StatusInternalServerError, ErrInternal),
          panic |-> ""]

\* the server listens, the connector watches no collection
HttpInit ==
    /\ configured = {}
    /\ capped = [c \in Collections |-> FALSE]
    /\ proc = "running"
    /\ runs = 1
    /\ ctxDone = FALSE
    /\ pc = [c \in Collections |-> "off"]
    /\ resume = [c \in Collections |-> TRUE]
    /\ streamPos = [c \in Collections |-> 0]
    /\ current = [c \in Collections |-> NoEvent]
    /\ log = [c \in Collections |-> <<>>]
    /\ tokensColl = [c \in Collections |-> <<>>]
    /\ published = [c \in Collections |-> <<>>]
    /\ nfaults = 0
    /\ faults = {}
    /\ watchFrom = [c \in Collections |-> -1]
    /\ appendFails = [c \in Collections |-> <<>>]
    /\ unacked = [c \in Collections |-> {}]
    /\ taskErrs = <<>>
    /\ signalled = FALSE
    /\ runPc = "wait"
    /\ startupLog = <<>>
    /\ srvPc = "listening"
    /\ waiterPc = "waiting"
    /\ runErr = <<>>
    /\ closeLog = <<>>
    /\ exitCode = -1
    /\ input = <<>>
    /\ result = <<>>
    /\ deps = [mongo |-> "up", nats |-> "connected"]
    /\ response = <<>>
    /\ watched = <<>>

HttpFrame ==
    UNCHANGED <<cfgVars, procVars, pc, resume, streamPos, current, log, tokensColl,
                published, nfaults, faults, watchFrom, appendFails, unacked,
                taskErrs, signalled, supVars, input, result, watched>>

\* a request for /healthz is served: every monitor is called, then the answer written
GetHealthz ==
    /\ srvPc = "listening"
    /\ LET errs == [n \in monitors |-> Monitor(n, deps)]
       IN  response' = <<[path |-> "/healthz", handler |-> NoHandler, at |-> deps,
                          errs |-> errs] @@ recoverer(healthCheck(NewWriter, errs))>>
    /\ UNCHANGED deps
    /\ HttpFrame

\* a request is served by some other handler behind the recovery middleware
ServeWrapped(h) ==
    /\ srvPc = "listening"
    /\ response' = <<[path |-> "/", handler |-> h, at |-> deps,
                      errs |-> [n \in monitors |-> NilErr]]
                     @@ recoverer(ServeHTTP(h, NewWriter))>>
    /\ UNCHANGED deps
    /\ HttpFrame

\* MongoDB becomes unreachable or reachable again
MongoChange ==
    /\ deps' = [deps EXCEPT !.mongo = IF @ = "up" THEN "down" ELSE "up"]
    /\ UNCHANGED response
    /\ HttpFrame

\* the nats.Conn loses its server, finds it again, or gives up for good
NatsChange(st) ==
    /\ \/ deps.nats = "connected" /\ st = "reconnecting"
       \/ deps.nats = "reconnecting" /\ st \in {"connected", "closed"}
    /\ deps' = [deps EXCEPT !.nats = st]
    /\ UNCHANGED response
    /\ HttpFrame

HttpNext ==
    \/ GetHealthz
    \/ \E h \in Handlers : ServeWrapped(h)
    \/ MongoChange
    \/ \E st \in NatsStates : NatsChange(st)

HttpSpec == HttpInit /\ [][HttpNext]_vars

(* ------------------- restart after an invalidate ----------------------- *)
\* events made on the re-created collection after the restart
RestartEvents == 2

\* what an earlier run left behind for coll1: an insert followed by the invalidate
\* of a drop, which that run received
droppedLog ==
    <<[token |-> TokenOf("coll1", 1), operationType |-> insertOperationType],
      [token |-> TokenOf("coll1", 2), operationType |-> invalidateOperationType]>>

\* the process has exited after its watcher of coll1 received the invalidate; the
\* insert before the drop was either published and committed by that run, or
\* made before the run's first stream was opened
RestartInit ==
    /\ configured = {"coll1"}
    /\ capped \in [Collections -> BOOLEAN]
    /\ capped["coll2"] = FALSE
    /\ proc = "down"
    /\ runs = 1
    /\ ctxDone = FALSE
    /\ pc = [c \in Collections |-> "off"]
    /\ resume = [c \in Collections |-> TRUE]
    /\ streamPos = [c \in Collections |-> 0]
    /\ current = [c \in Collections |-> NoEvent]
    /\ log = [c \in Collections |-> IF c = "coll1" THEN droppedLog ELSE <<>>]
    /\ \E committed \in BOOLEAN :
          /\ tokensColl = [c \in Collections |->
                 IF c = "coll1" /\ committed
                 THEN InsertOne(<<>>, capped[c], [value |-> TokenOf("coll1", 1)])
                 ELSE <<>>]
          /\ published = [c \in Collections |->
                 IF c = "coll1" /\ committed
                 THEN <<MsgOf("coll1", droppedLog[1])>> ELSE <<>>]
          /\ watchFrom = [c \in Collections |->
                 IF c = "coll1" THEN (IF committed THEN 0 ELSE 1) ELSE -1]
    /\ nfaults = 0
    /\ faults = {}
    /\ appendFails = [c \in Collections |-> <<>>]
    /\ unacked = [c \in Collections |-> {}]
    /\ taskErrs = <<>>
    /\ signalled = FALSE
    /\ runPc = "idle"
    /\ startupLog = <<>>
    /\ srvPc = "off"
    /\ waiterPc = "off"
    /\ runErr = <<>>
    /\ closeLog = <<>>
    /\ exitCode = -1
    /\ input = <<>>
    /\ result = <<>>
    /\ deps = [mongo |-> "up", nats |-> "connected"]
    /\ response = <<>>
    /\ watched = <<>>

\* the re-created collection is changed while the restarted connector runs
RestartEmit(c, op) ==
    /\ proc = "running"
    /\ Len(log[c]) < Len(droppedLog) + RestartEvents
    /\ Emit(c, op)

RestartNext ==
    \/ \E c \in configured, op \in {insertOperationType, updateOperationType} :
          RestartEmit(c, op)
    \/ Run
    \/ Cancel
    \/ Exit
    \/ \E c \in configured : OpenStream(c)
    \/ \E c \in configured : NextEvent(c)
    \/ \E c \in configured : Publish(c)
    \/ \E c \in configured : InsertToken(c)
    \/ \E c \in configured : CloseStream(c)

RestartSpec == RestartInit /\ [][RestartNext]_vars

(* ------------------------ auxiliary definitions ------------------------ *)
\* positions of the messages published for collection c
Positions(c) == 1..Len(published[c])

\* indices of the change events of collection c
Events(c) == 1..Len(log[c])

\* the k-th event of c has been published successfully
IsPublished(c, k) == \E p \in Positions(c) : published[c][p].data = log[c][k]

\* positions at which the k-th event of c was published
PubsOf(c, k) == {p \in Positions(c) : published[c][p].data = log[c][k]}

\* position of the first successful publish of the k-th event of c
FirstPub(c, k) == CHOOSE p \in PubsOf(c, k) : \A q \in PubsOf(c, k) : p <= q

\* number of entries of sequence s equal to x
Count(s, x) == Cardinality({i \in 1..Len(s) : s[i] = x})

\* the watcher of c has consumed everything the source emitted and waits in cs.Next
CaughtUp(c) ==
    /\ proc = "running"
    /\ ~ctxDone
    /\ pc[c] = "next"
    /\ streamPos[c] = Len(log[c])

\* a publishable event emitted after the first stream of c was opened,
\* while the collection had not been invalidated
Covered(c, k) ==
    /\ watchFrom[c] >= 0
    /\ k > watchFrom[c]
    /\ operationType(log[c][k]) \in publishableOperationTypes
    /\ \A j \in 1..k : operationType(log[c][j]) # invalidateOperationType

\* every covered event of c has a published message
NoneMissing(c) == \A k \in Events(c) : Covered(c, k) => IsPublished(c, k)

\* events of c published successfully whose token was not committed afterwards
InFlight(c) == {published[c][p].data : p \in unacked[c]}

(* ------------------------------- claims -------------------------------- *)
\* C1: no commit without publish. Every record of a resume tokens collection
\* holds the token of a publishable event for which a message with that
\* identifier was published successfully before.
C1_NoCommitWithoutPublish ==
    \A c \in configured : \A i \in 1..Len(tokensColl[c]) :
        /\ \E p \in Positions(c) : published[c][p].msgId = tokensColl[c][i].value
        /\ \E k \in Events(c) :
              /\ log[c][k].token = tokensColl[c][i].value
              /\ operationType(log[c][k]) \in publishableOperationTypes

\* a token was committed in a run in which a publish failed and an event was skipped
C1_Witness ==
    /\ tokensColl["coll1"] # <<>>
    /\ "publish" \in faults
    /\ \E k \in Events("coll1") : operationType(log["coll1"][k]) = dropOperationType

\* C2: the system never loses a change. After publish failures and append
\* failures only, once the watcher has caught up every covered event has
\* been published.
C2_NeverLosesAChange ==
    \A c \in configured :
        (CaughtUp(c) /\ runs = 1 /\ faults \subseteq {"publish", "insert"})
            => NoneMissing(c)

\* C3: at-least-once. Once the watcher has caught up, every published message
\* was either followed by the commit of its token as the next record or
\* published again with the same identifier.
C3_AtLeastOnce ==
    \A c \in configured : CaughtUp(c) => unacked[c] = {}

\* C4: per-collection FIFO. The first successful publishes of two events of
\* one collection happen in source order.
C4_PerCollectionFifo ==
    \A c \in configured : \A i, j \in Events(c) :
        (i < j /\ IsPublished(c, i) /\ IsPublished(c, j))
            => FirstPub(c, i) < FirstPub(c, j)

\* two events were published, one of them twice, across a restart
C4_Witness ==
    /\ runs = 2
    /\ \E i, j \in Events("coll1") :
          /\ i < j
          /\ IsPublished("coll1", i)
          /\ IsPublished("coll1", j)
          /\ Cardinality(PubsOf("coll1", i)) > 1

\* C5: restart under load. After the process was stopped and started again,
\* with no failing call, once the watcher has caught up no covered event is
\* missing and every duplicate carries the identifier of its original.
C5_RestartUnderLoad ==
    \A c \in configured :
        (CaughtUp(c) /\ runs >= 2 /\ faults = {})
            => /\ NoneMissing(c)
               /\ \A p, q \in Positions(c) :
                     published[c][p].data = published[c][q].data
                         => published[c][p].msgId = published[c][q].msgId

\* C6: source outage. When reads of the source fail while a collection is
\* watched, the watcher does not return, and once it has caught up no covered
\* event is missing.
C6_SourceOutage ==
    \A c \in configured :
        ("next" \in faults /\ faults \subseteq {"next", "find", "watch"} /\ runs = 1)
            => /\ pc[c] # "failed"
               /\ CaughtUp(c) => NoneMissing(c)

\* C7: every published message is for a publishable event of the watched
\* collection, its subject is the stream name followed by the event's
\* operation type, and its identifier is the event's resume token.
C7_MessageShape ==
    \A c \in configured : \A p \in Positions(c) :
        \E k \in Events(c) :
            /\ published[c][p].data = log[c][k]
            /\ operationType(log[c][k]) \in publishableOperationTypes
            /\ published[c][p].subj = <<streamName(c), operationType(log[c][k])>>
            /\ published[c][p].msgId = TokenOf(c, k)

\* an update was published although the stream also delivered a skipped event
C7_Witness ==
    /\ \E p \in Positions("coll1") :
          published["coll1"][p].subj = <<"COLL1", updateOperationType>>
    /\ \E k \in Events("coll1") :
          /\ operationType(log["coll1"][k]) = dropOperationType
          /\ \E j \in Events("coll1") : j > k /\ IsPublished("coll1", j)

\* C8: two messages on the same subject carry the same identifier exactly
\* when they are publications of the same source event.
C8_IdentifierPerEvent ==
    \A c, d \in configured : \A p \in Positions(c), q \in Positions(d) :
        published[c][p].subj = published[d][q].subj
            => ((published[c][p].msgId = published[d][q].msgId)
                    <=> (published[c][p].data = published[d][q].data))

\* one subject holds a re-published event and a different event
C8_Witness ==
    \E p, q, r \in Positions("coll1") :
        /\ p < q
        /\ published["coll1"][p].data = published["coll1"][q].data
        /\ published["coll1"][r].data # published["coll1"][p].data
        /\ published["coll1"][r].subj = published["coll1"][p].subj

\* C9: at most one in flight. At most one event of a collection is published
\* without its token having been committed.
C9_AtMostOneInFlight ==
    \A c \in configured : Cardinality(InFlight(c)) <= 1

\* C10: an event is published a second time at most once per failed (or
\* interrupted) append of its own token.
C10_OneDuplicatePerAppendFailure ==
    \A c \in configured : \A k \in Events(c) :
        IsPublished(c, k)
            => Cardinality(PubsOf(c, k)) - 1 <= Count(appendFails[c], k)

\* an event was published twice after InsertOne failed for it, and another
\* event was published once
C10_Witness ==
    /\ "insert" \in faults
    /\ \E k, j \in Events("coll1") :
          /\ Cardinality(PubsOf("coll1", k)) = 2
          /\ Count(appendFails["coll1"], k) >= 1
          /\ Cardinality(PubsOf("coll1", j)) = 1

(* ------------------- claims on Run and its task group ------------------ *)
\* the watcher of c has consumed the invalidate event of its collection
Invalidated(c) == pc[c] # "off" /\ ~resume[c]

\* the watcher of c is inside its loop
InLoop(c) == pc[c] \in {"open", "next", "publish", "insert", "close"}

\* C11: invalidate ends one binding only. No message is ever published for a
\* drop or an invalidate event; and when a binding's watcher has consumed an
\* invalidate event, no call has failed and no signal has arrived, that
\* watcher closes its stream and returns nil, no task has returned an error,
\* the context is not cancelled, Run has not returned, and every other
\* binding is still in its loop (or about to be started) and has published
\* every covered event once it has caught up.
C11_InvalidateEndsOneBinding ==
    /\ \A c \in configured : \A p \in Positions(c) :
          /\ published[c][p].subj[2] \notin {dropOperationType, invalidateOperationType}
          /\ operationType(published[c][p].data)
                \notin {dropOperationType, invalidateOperationType}
    /\ \A c \in configured :
          (Invalidated(c) /\ faults = {} /\ ~signalled)
              => /\ pc[c] \in {"close", "done"}
                 /\ taskErrs = <<>>
                 /\ ~ctxDone
                 /\ proc = "running"
                 /\ runPc \in {"startup", "wait"}
                 /\ exitCode = -1
                 /\ \A d \in configured \ {c} :
                       /\ resume[d] => (InLoop(d) \/ (pc[d] = "off" /\ runPc = "startup"))
                       /\ (pc[d] = "next" /\ streamPos[d] = Len(log[d])) => NoneMissing(d)

\* coll1 was invalidated and its watcher returned nil, while coll2's watcher
\* has published and committed an insert and waits for the next event
C11_Witness ==
    /\ pc["coll1"] = "done"
    /\ ~resume["coll1"]
    /\ faults = {}
    /\ ~signalled
    /\ pc["coll2"] = "next"
    /\ Len(published["coll2"]) = 1
    /\ Len(tokensColl["coll2"]) = 1

\* binding c takes a recoverable step: its inner loop breaks (publish
\* failure, append failure, end of the stream, invalidate), its stream is
\* closed, or its stream is opened again
RecoverableStep(c) ==
    \/ pc[c] \in {"next", "publish", "insert"} /\ pc'[c] = "close"
    \/ pc[c] = "close" /\ pc'[c] \in {"open", "done"}
    \/ pc[c] = "open" /\ pc'[c] = "next"

\* the step leaves every binding other than c, and the group, as they were
OthersUntouched(c) ==
    /\ \A d \in Collections \ {c} :
          /\ tokensColl'[d] = tokensColl[d]
          /\ published'[d] = published[d]
          /\ pc'[d] = pc[d]
          /\ resume'[d] = resume[d]
          /\ streamPos'[d] = streamPos[d]
          /\ current'[d] = current[d]
    /\ ctxDone' = ctxDone
    /\ taskErrs' = taskErrs

\* C12: independent loops. A step in which one binding breaks its inner loop
\* (publish failure, append failure, end of stream, invalidate), closes its
\* stream or re-opens it changes neither the resume tokens collection, nor
\* the published messages, nor the control state of any other binding, nor
\* the shared context and group.
C12_IndependentLoops ==
    [][\A c \in configured : RecoverableStep(c) => OthersUntouched(c)]_vars

\* coll1's only publish failed and its stream was opened again, while coll2
\* has published and committed its event and goes on
C12_Witness ==
    /\ faults = {"publish"}
    /\ Len(log["coll1"]) = 1
    /\ published["coll1"] = <<>>
    /\ pc["coll1"] = "next"
    /\ Len(published["coll2"]) = 1
    /\ Len(tokensColl["coll2"]) = 1
    /\ pc["coll2"] = "next"
    /\ ~ctxDone

\* C13: cancellation is success. When the context was cancelled by a signal
\* while the watcher was running and no call has failed, the watcher returns
\* nil, not an error.
C13_CancelReturnsNil ==
    \A c \in configured :
        (signalled /\ faults = {} /\ pc[c] \in {"done", "failed"}) => pc[c] = "done"

\* C14: exit codes. A process that was shut down by a signal and in which no
\* call failed exits with code 0; a process that exits with another code
\* had a failing call (at startup or at run time).
C14_ExitCodes ==
    exitCode # -1 =>
        /\ (signalled /\ faults = {}) => exitCode = 0
        /\ exitCode # 0 => faults # {}

\* a step of Run, of main or of a task of the group
SupProgress ==
    \/ StartupCall \/ GoServer \/ WaiterClose \/ ServerReturns \/ Wait
    \/ CleanupStep \/ RunReturns \/ MainExit
    \/ \E c \in configured :
          Watching /\ (OpenStream(c) \/ NextEvent(c) \/ Publish(c)
                          \/ InsertToken(c) \/ CloseStream(c))

\* steps the watcher of c can still take once the context is cancelled
WatcherRank(c) ==
    CASE pc[c] = "open" -> 1
      [] pc[c] = "close" -> 2
      [] pc[c] \in {"publish", "insert"} -> 3
      [] pc[c] = "next" -> 4 + (Len(log[c]) - streamPos[c])
      [] OTHER -> 0

\* steps Run, main and the tasks can still take once the context is cancelled
Rank ==
    WatcherRank("coll1") + WatcherRank("coll2")
    + (CASE srvPc = "listening" -> 2 [] srvPc = "stopping" -> 1 [] OTHER -> 0)
    + (IF waiterPc = "waiting" THEN 1 ELSE 0)
    + (CASE runPc = "startup" -> 10
         [] runPc = "wait" -> 6
         [] runPc = "cleanup" -> 2 + (Len(cleanupOrder) - Len(closeLog))
         [] runPc = "returned" -> 1
         [] OTHER -> 0)
    + (IF proc = "running" THEN 1 ELSE 0)

\* what cleanup has closed
Closed == {closeLog[i] : i \in 1..Len(closeLog)}

\* C15: Run returns after cancellation. Once the context is cancelled, Run
\* and its tasks can always take a further step until the process has
\* ended, and each of their steps brings the end nearer (so Run returns
\* after finitely many steps); when Run has returned, it returns a non-nil
\* error and the MongoDB client and the NATS client have been closed.
C15_RunReturnsAfterCancel ==
    /\ []((ctxDone /\ proc = "running") => ENABLED SupProgress)
    /\ [][(ctxDone /\ log' = log) => Rank' < Rank]_vars
    /\ [](runPc = "returned" => (runErr # NilErr /\ {"mongo", "nats"} \subseteq Closed))

\* after a signal and without any failing call both watchers and the server
\* returned their errors and Run returned the first of them, clients closed
C15_Witness ==
    /\ runPc = "returned"
    /\ signalled
    /\ faults = {}
    /\ Len(taskErrs) = 3
    /\ runErr = taskErrs[1]
    /\ closeLog = cleanupOrder

\* the order the claim prescribes: watched collection, resume tokens
\* collection, stream, binding after binding
ExpectedStartup ==
    <<<<"CreateCollection", "coll1">>, <<"CreateTokensCollection", "coll1">>,
      <<"AddStream", "coll1">>,
      <<"CreateCollection", "coll2">>, <<"CreateTokensCollection", "coll2">>,
      <<"AddStream", "coll2">>>>

\* the successful startup calls made for binding c
StartupCallsOf(c) == {i \in 1..Len(startupLog) : startupLog[i][2] = c}

\* Run has returned, or is about to return, the error of a startup call
StartupFailed ==
    /\ runPc \in {"cleanup", "returned"}
    /\ runErr # NilErr
    /\ runErr[1] \in {"CreateCollection", "CreateTokensCollection", "AddStream"}

\* C16: startup order. The startup calls are made in the prescribed order,
\* binding by binding; a watcher runs only for a binding whose three calls
\* have succeeded; and when a startup call fails, Run returns the error of
\* exactly the next call in that order, and no watcher was started for the
\* binding of that call nor for any later binding, nor was the HTTP server.
C16_StartupOrder ==
    /\ \A i \in 1..Len(startupLog) : startupLog[i] = ExpectedStartup[i]
    /\ \A c \in configured : pc[c] # "off" => Cardinality(StartupCallsOf(c)) = 3
    /\ StartupFailed =>
          /\ Len(startupLog) < Len(ExpectedStartup)
          /\ runErr = ExpectedStartup[Len(startupLog) + 1]
          /\ \A i \in (Len(startupLog) + 1)..Len(ExpectedStartup) :
                pc[ExpectedStartup[i][2]] = "off"
          /\ srvPc = "off"
          /\ waiterPc = "off"

\* the resume tokens collection of coll2 could not be ensured: Run returned
\* that error, coll1's watcher had been started, coll2's was not
C16_Witness ==
    /\ runPc = "returned"
    /\ runErr = <<"CreateTokensCollection", "coll2">>
    /\ "startup" \in faults
    /\ pc["coll1"] # "off"
    /\ pc["coll2"] = "off"

\* a step of a task of the group
TaskStep ==
    \/ WaiterClose \/ ServerReturns
    \/ \E c \in configured :
          Watching /\ (OpenStream(c) \/ NextEvent(c) \/ Publish(c)
                          \/ InsertToken(c) \/ CloseStream(c))

CleanupFollows(order) ==
    /\ Len(closeLog) <= Len(order)
    /\ \A i \in 1..Len(closeLog) : closeLog[i] = order[i]
    /\ runPc = "returned" => Len(closeLog) = Len(order)
    /\ closeLog # <<>> => runPc \in {"cleanup", "returned"}

\* C18 as stated: on every exit from Run, cleanup closes the sink (NATS)
\* first, then the source (MongoDB), and releases the signal handler last.
C18_SinkSourceStop == CleanupFollows(<<"nats", "mongo", "stop">>)

\* C18 amended: on every exit from Run, cleanup closes the source (MongoDB)
\* first, then the sink (NATS), and releases the signal handler last.
C18_SourceSinkStop == CleanupFollows(<<"mongo", "nats", "stop">>)

\* Run has returned a startup error while coll1's watcher was already
\* started, and cleanup is complete
C18_Witness ==
    /\ runPc = "returned"
    /\ StartupFailed
    /\ pc["coll1"] # "off"
    /\ Len(closeLog) = 3

(* --------------------- claims on the configuration --------------------- *)
\* the resume tokens database and collection the entry will use at run time
EffectiveTokensDbName(in) ==
    IF in.tokensDbName = "" THEN "resume-tokens" ELSE in.tokensDbName
EffectiveTokensCollName(in) ==
    IF in.tokensCollName = "" THEN in.collName ELSE in.tokensCollName

\* upper and lower case of a name are the same name
SameName(a, b) ==
    \/ a = b
    \/ {a, b} \in {{"db", "DB"}, {"coll1", "COLL1"}, {"resume-tokens", "RESUME-TOKENS"}}

\* C19: cursor is not source. Every entry whose resume tokens database and
\* collection, after defaults and overrides, name the watched database and
\* collection (whatever the case of the letters) is rejected, and no binding
\* is created for it; a binding that is created never stores its tokens in
\* the collection it watches.
C19_CursorIsNotSource ==
    result # <<>> =>
        /\ (/\ SameName(input.dbName, EffectiveTokensDbName(input))
            /\ SameName(input.collName, EffectiveTokensCollName(input)))
               => (result[1].err # "" /\ result[1].coll = <<>>)
        /\ \A b \in {result[1].coll[i] : i \in 1..Len(result[1].coll)} :
               ~(SameName(b.dbName, b.tokensDbName) /\ SameName(b.collName, b.tokensCollName))

\* C20: capped needs a size. Through main and its options, an entry that
\* asks for a capped resume tokens collection with a missing, zero or
\* negative size is rejected; and a binding that is created is capped only
\* with a size greater than 0.
C20_CappedNeedsSize ==
    (result # <<>> /\ result[1].via = "options") =>
        /\ (/\ input.tokensCollCapped = <<TRUE>>
            /\ \/ input.tokensCollSizeInBytes = <<>>
               \/ input.tokensCollSizeInBytes[1] <= 0)
               => result[1].err # ""
        /\ \A b \in {result[1].coll[i] : i \in 1..Len(result[1].coll)} :
               b.tokensCollCapped => b.tokensCollSizeInBytes > 0

\* the binding a constructor has built, if any
BuiltBindings == IF result = <<>> THEN {} ELSE {result[1].coll[i] : i \in 1..Len(result[1].coll)}

\* the options main passes for the entry include WithTokensCollCapped
CappedOptionGiven ==
    /\ input.tokensCollCapped = <<TRUE>>
    /\ input.tokensCollSizeInBytes # <<>>

\* C21: defaults and overrides. A binding built through WithCollection keeps
\* the given source database and collection; its resume tokens database is
\* the given non-empty one, else "resume-tokens"; its resume tokens
\* collection is the given non-empty one, else the source collection name;
\* its stream is the given non-empty one, else the upper-cased source
\* collection name; it is capped with the given size when
\* WithTokensCollCapped is passed, else uncapped with size 0. Each field
\* depends on its own option only.
C21_DefaultsAndOverrides ==
    (result # <<>> /\ result[1].via = "options") =>
        \A b \in BuiltBindings :
            /\ b.dbName = input.dbName
            /\ b.collName = input.collName
            /\ b.tokensDbName = IF input.tokensDbName # ""
                                THEN input.tokensDbName ELSE "resume-tokens"
            /\ b.tokensCollName = IF input.tokensCollName # ""
                                  THEN input.tokensCollName ELSE input.collName
            /\ b.streamName = IF input.streamName # "" THEN input.streamName ELSE "COLL1"
            /\ IF CappedOptionGiven
               THEN b.tokensCollCapped
                    /\ b.tokensCollSizeInBytes = input.tokensCollSizeInBytes[1]
               ELSE ~b.tokensCollCapped /\ b.tokensCollSizeInBytes = 0

\* a binding was built from an entry that names the resume tokens collection
\* and nothing else besides the source
C21_Witness ==
    /\ result # <<>>
    /\ result[1].via = "options"
    /\ input.dbName = "db"
    /\ input.collName = "coll1"
    /\ input.tokensDbName = ""
    /\ input.tokensCollName = "tokens"
    /\ input.streamName = ""
    /\ input.tokensCollCapped = <<>>
    /\ \E b \in BuiltBindings :
          /\ b.tokensDbName = "resume-tokens"
          /\ b.tokensCollName = "tokens"
          /\ b.streamName = "COLL1"
          /\ ~b.tokensCollCapped

\* C22: one writer per cursor collection. In a connector that was created,
\* no two bindings have the same resume tokens database and collection.
C22_OneWriterPerCursor ==
    (result # <<>> /\ result[1].err = "") =>
        \A i, j \in 1..Len(result[1].coll) :
            i # j => <<result[1].coll[i].tokensDbName, result[1].coll[i].tokensCollName>>
                       # <<result[1].coll[j].tokensDbName, result[1].coll[j].tokensCollName>>

\* the answers to /healthz and to the other wrapped handlers seen so far
HealthzAnswers == {i \in 1..Len(response) : response[i].path = "/healthz"}
WrappedAnswers == {i \in 1..Len(response) : response[i].path = "/"}

\* C23: every GET /healthz is answered with HTTP 200 and outer status UP, and
\* each component is UP exactly when its monitor returned no error, DOWN otherwise
C23_HealthzReflectsMonitors ==
    \A i \in HealthzAnswers :
        LET r == response[i]
        IN  /\ r.panic = ""
            /\ r.w.code = StatusOK
            /\ Len(r.w.body) = 1
            /\ r.w.body[1].status = UP
            /\ DOMAIN r.w.body[1].components = monitors
            /\ \A n \in monitors :
                   /\ r.errs[n] = NilErr => r.w.body[1].components[n].status = UP
                   /\ r.errs[n] # NilErr => r.w.body[1].components[n].status = DOWN

\* /healthz was asked while the ping of MongoDB failed and NATS was connected
C23_Witness ==
    \E i \in HealthzAnswers :
        /\ response[i].errs["mongo"] # NilErr
        /\ response[i].errs["nats"] = NilErr
        /\ response[i].w.body[1].components["mongo"].status = DOWN
        /\ response[i].w.body[1].components["nats"].status = UP

\* the dependency is unreachable: no read from it or publish to it can succeed
Unreachable(n, d) ==
    IF n = "mongo" THEN d.mongo = "down" ELSE d.nats # "connected"

\* C24: a /healthz request made while a dependency is unreachable reports DOWN
\* for that dependency
C24_UnreachableIsDown ==
    \A i \in HealthzAnswers : \A n \in monitors :
        Unreachable(n, response[i].at)
            => response[i].w.body[1].components[n].status = DOWN

\* the last thing written to the body is a JSON error with a non-empty message
EndsWithError(w) ==
    /\ w.body # <<>>
    /\ LET b == w.body[Len(w.body)]
       IN  /\ DOMAIN b = {"error"}
           /\ b.error.message # ""

\* what the wrapped handler itself left in the writer
HandlerWrote(h) == ServeHTTP(h, NewWriter).w

\* C25 as stated: behind the recovery middleware every panic other than the abort
\* panic is answered with HTTP 500 and a JSON error body with a non-empty message;
\* the abort panic is raised again and the middleware writes no body
C25_PanicIs500 ==
    \A i \in WrappedAnswers :
        LET r == response[i]
        IN  /\ r.handler.panic \notin {"", ErrAbortHandler}
                => r.panic = "" /\ r.w.code = StatusInternalServerError /\ EndsWithError(r.w)
            /\ r.handler.panic = ErrAbortHandler
                => r.panic = ErrAbortHandler /\ r.w = HandlerWrote(r.handler)

\* C25 amended: a panic other than the abort panic is recovered and a JSON error
\* body with a non-empty message is written; the status is 500 when the handler had
\* not sent its header before it panicked, and the status the handler sent otherwise;
\* the abort panic is raised again and the middleware writes nothing
C25_PanicIs500UnlessHeaderSent ==
    \A i \in WrappedAnswers :
        LET r == response[i]
            own == HandlerWrote(r.handler)
        IN  /\ r.handler.panic \notin {"", ErrAbortHandler}
                => /\ r.panic = ""
                   /\ EndsWithError(r.w)
                   /\ own.code = 0
                        => /\ r.w.code = StatusInternalServerError
                           /\ r.w.contentType = "application/json"
                           /\ Len(r.w.body) = 1
                   /\ own.code # 0 => r.w.code = own.code
            /\ r.handler.panic = ErrAbortHandler
                => r.panic = ErrAbortHandler /\ r.w = own

\* a handler panicked before it wrote anything and the answer is a 500
C25_Witness ==
    \E i \in WrappedAnswers :
        /\ response[i].handler.panic = "boom"
        /\ HandlerWrote(response[i].handler).code = 0
        /\ response[i].w.code = StatusInternalServerError
        /\ response[i].w.body[1].error.message = ErrInternal

\* the step is a successful InsertOne of the current resume token of c
Appended(c) == proc = "running" /\ pc[c] = "insert" /\ pc'[c] = "next"

PublishFails(c) ==
    /\ proc = "running" /\ proc' = "running"
    /\ pc[c] = "publish" /\ pc'[c] # "publish"
    /\ published'[c] = published[c]

\* the step is a successful READ-CURSOR and OPEN-STREAM of c
Opens(c) == proc = "running" /\ pc[c] = "open" /\ pc'[c] = "next"

\* the position of the latest event of c whose token is in the cursor collection
CommittedPos(c) ==
    LET ps == {PosOfToken(c, tokensColl[c][i].value) : i \in 1..Len(tokensColl[c])}
    IN  CHOOSE p \in ps : \A q \in ps : q <= p

\* C27: a publish failure leaves the cursor collection as it is and does not make
\* the loop return: the loop goes on to close the stream; the stream opened next
\* resumes after the previously committed token
C27_PublishFailureResumes ==
    [][\A c \in Collections :
          /\ PublishFails(c)
                => /\ tokensColl'[c] = tokensColl[c]
                   /\ pc'[c] = "close"
                   /\ taskErrs' = taskErrs
                   /\ resume'[c] = resume[c]
          /\ (Opens(c) /\ tokensColl[c] # <<>>)
                => streamPos'[c] = CommittedPos(c)]_vars

\* the publish of the second event failed once; the stream was closed and opened
\* again after the committed first token, and the second event was published
C27_Witness ==
    /\ runs = 1
    /\ faults = {"publish"}
    /\ nfaults = 1
    /\ Len(tokensColl["coll1"]) = 1
    /\ tokensColl["coll1"][1].value = TokenOf("coll1", 1)
    /\ Len(published["coll1"]) = 2
    /\ pc["coll1"] = "insert"
    /\ current["coll1"].token = TokenOf("coll1", 2)

\* the failures the claim calls recoverable: a source read, a cursor collection
\* read, a sink publish, a cursor append
RecoverableKinds == {"next", "find", "publish", "insert"}

\* a call of the watcher of c fails in this step, for the first time with this kind
FailsWith(c, kinds) ==
    /\ proc = "running" /\ ~ctxDone
    /\ nfaults' = nfaults + 1
    /\ faults' # faults /\ faults' \ faults \subseteq kinds
    /\ pc'[c] # pc[c]

\* C28: a source read error, a cursor collection read error, a sink publish error
\* and a cursor append error are recoverable: the loop does not return, it goes on
\* to close the stream (or, when no stream is open, to read the cursor again)
C28_RecoverableErrors ==
    [][\A c \in Collections :
          FailsWith(c, RecoverableKinds)
              => /\ pc'[c] \in {"close", "open"}
                 /\ taskErrs' = taskErrs
                 /\ ~ctxDone']_vars

\* the failures the claim calls fatal: serialising an event, fetching and decoding
\* the persisted cursor, opening the change stream
FatalKinds == {"marshal", "find", "watch"}

\* C29: a failure to serialise an event, to decode a persisted cursor or to open
\* the change stream makes the loop return an error; the error reaches the
\* supervisor, whose context is cancelled for all other tasks; from then on Run and
\* its tasks can always take a further step until the process has ended, Run returns
\* a non-nil error and the exit code is not zero
C29_FatalErrorsEndProcess ==
    /\ [][\A c \in Collections :
             FailsWith(c, FatalKinds)
                 => /\ pc'[c] = "failed"
                    /\ taskErrs' = Append(taskErrs, <<"WatchCollection", c>>)
                    /\ ctxDone']_vars
    /\ []((proc = "running" /\ \E c \in Collections : pc[c] = "failed")
             => (ctxDone /\ ENABLED SupProgress))
    /\ []((runPc = "returned" /\ \E c \in Collections : pc[c] = "failed")
             => runErr # NilErr)
    /\ []((exitCode # -1 /\ \E c \in Collections : pc[c] = "failed")
             => exitCode # 0)

\* an event of coll1 could not be serialised: its watcher returned the error, the
\* watcher of coll2 was cancelled, Run returned that error and the process exited
C29_Witness ==
    /\ faults = {"marshal"}
    /\ ~signalled
    /\ pc["coll1"] = "failed"
    /\ pc["coll2"] = "failed"
    /\ taskErrs[1] = <<"WatchCollection", "coll1">>
    /\ runErr = <<"WatchCollection", "coll1">>
    /\ proc = "down"
    /\ exitCode = 1

\* the places of the inner loop, where the change stream of c is open
InnerLoop == {"next", "publish", "insert"}

\* C30: every exit from the inner loop (end of events, publish failure, append
\* failure, invalidate, cancellation, fatal error) leads to the close of the change
\* stream, and that close can be made whether or not the context is cancelled
C30_StreamAlwaysClosed ==
    /\ [][\A c \in Collections :
             (proc = "running" /\ proc' = "running"
                 /\ pc[c] \in InnerLoop /\ pc'[c] \notin InnerLoop)
                 => pc'[c] = "close"]_vars
    /\ [](\A c \in configured :
             (proc = "running" /\ pc[c] = "close") => ENABLED CloseStream(c))

\* C31: OPEN-STREAM resumes after the latest committed token exactly when the
\* cursor collection holds a record; with an empty cursor collection the stream
\* starts from now, and reading the empty cursor is not an error: the open fails
\* only through a failing call or a cancelled context
C31_ResumeIffCursor ==
    [][\A c \in Collections :
          /\ Opens(c)
                => streamPos'[c] =
                      IF tokensColl[c] # <<>>
                      THEN PosOfToken(c, tokensColl[c][Len(tokensColl[c])].value)
                      ELSE Len(log[c])
          /\ (proc = "running" /\ pc[c] = "open" /\ pc'[c] = "failed"
                 /\ tokensColl[c] = <<>>)
                => (ctxDone \/ nfaults' > nfaults)]_vars

\* a stream was opened over an empty cursor collection while the source already
\* held an event: it starts after that event
C31_Witness ==
    /\ tokensColl["coll1"] = <<>>
    /\ pc["coll1"] = "next"
    /\ Len(log["coll1"]) = 2
    /\ streamPos["coll1"] = 2
    /\ published["coll1"] = <<>>
    /\ faults = {}

\* position in source order of the event carried by the p-th published message of c
PubPos(c, p) == PosOfToken(c, published[c][p].msgId)

\* C32: within one binding the successfully published events never go backwards in
\* source order, over re-opens and process restarts: every publish is of an event
\* at or after all events published before it, so a re-publication repeats the
\* most recently published event
C32_PublishedNeverGoesBack ==
    /\ [](\A c \in configured : \A p, q \in Positions(c) :
             p < q => PubPos(c, p) <= PubPos(c, q))
    /\ [][\A c \in configured :
             (Len(published'[c]) > Len(published[c]) /\ published[c] # <<>>
                 /\ \E p \in Positions(c) :
                       published[c][p].data = published'[c][Len(published'[c])].data)
                 => published'[c][Len(published'[c])].data
                        = published[c][Len(published[c])].data]_vars

\* after a restart the second event was published again, following the first
C32_Witness ==
    /\ runs = 2
    /\ Len(published["coll1"]) = 3
    /\ PubPos("coll1", 1) = 1
    /\ PubPos("coll1", 2) = 2
    /\ PubPos("coll1", 3) = 2

\* position in source order of the event whose token is the i-th cursor record of c
CursorPos(c, i) == PosOfToken(c, tokensColl[c][i].value)

\* C33: the tokens of a binding's cursor collection are strictly increasing in
\* append order, across re-opens and process restarts: no token is committed
\* twice and none after a later one
C33_CursorStrictlyIncreasing ==
    /\ [](\A c \in configured : \A i, j \in 1..Len(tokensColl[c]) :
             i < j => CursorPos(c, i) < CursorPos(c, j))
    /\ [][\A c \in configured :
             (Appended(c) /\ tokensColl[c] # <<>>)
                 => CursorPos(c, Len(tokensColl[c]))
                       < PosOfToken(c, currentResumeToken(current[c]))]_vars

\* the append of the second token failed once; after the re-open it was appended,
\* once, behind the first
C33_Witness ==
    /\ ~capped["coll1"]
    /\ "insert" \in faults
    /\ Len(tokensColl["coll1"]) = 2
    /\ CursorPos("coll1", 1) = 1
    /\ CursorPos("coll1", 2) = 2
    /\ appendFails["coll1"] = <<2>>

\* C34: when Run returns, also when it returns early because a startup call of a
\* later binding failed, every task it started has returned: no watcher is still
\* in its loop, and neither the server task nor the shutdown task is still running
C34_TasksJoined ==
    runPc = "returned"
        => /\ \A c \in configured : pc[c] \in {"off", "done", "failed"}
           /\ srvPc \in {"off", "returned"}
           /\ waiterPc \in {"off", "returned"}

\* C35: after a binding received invalidate and the process was restarted with the
\* collection existing again, the binding replicates again: no invalidate is made
\* after the restart, so the restarted watcher never ends its loop as on an
\* invalidate, which would leave every later event of the collection unpublished
C35_ReplicatesAfterRestart ==
    \A c \in configured :
        (proc = "running" /\ runs = 2) => pc[c] # "done"

\* the k-th event of c is neither publishable nor an invalidate
Ignored(c, k) ==
    operationType(log[c][k]) \notin publishableOperationTypes \cup {invalidateOperationType}

\* the step is the watcher of c receiving, and serialising, its next event
Receives(c) ==
    /\ proc = "running" /\ pc[c] = "next"
    /\ streamPos'[c] = streamPos[c] + 1
    /\ pc'[c] # "failed"

\* C36: an event that is neither publishable nor invalidate is skipped: nothing is
\* published and no cursor record appended for it, and the loop goes on with the
\* next event of the same stream; the commit of the next publishable event moves
\* the resume point past every event skipped before it
C36_IgnoredEventsSkipped ==
    [][\A c \in configured :
          /\ (Receives(c) /\ Ignored(c, streamPos'[c]))
                => /\ published'[c] = published[c]
                   /\ tokensColl'[c] = tokensColl[c]
                   /\ pc'[c] = "next"
                   /\ resume'[c] = resume[c]
                   /\ current'[c] = current[c]
          /\ Appended(c)
                => \A k \in 1..streamPos[c] :
                      Ignored(c, k)
                          => StartAfter(c, FindOne(tokensColl'[c], capped[c])) > k]_vars

\* a drop event was skipped and the insert after it published and committed: the
\* only cursor record is the token of the insert
C36_Witness ==
    /\ watchFrom["coll1"] = 0
    /\ Len(log["coll1"]) = 2
    /\ Ignored("coll1", 1)
    /\ operationType(log["coll1"][2]) = insertOperationType
    /\ Len(published["coll1"]) = 1
    /\ Len(tokensColl["coll1"]) = 1
    /\ tokensColl["coll1"][1].value = TokenOf("coll1", 2)
    /\ faults = {}

\* every startup call of every configured binding has succeeded
StartupComplete == Len(startupLog) = Len(startupCalls) * Len(collections)

\* C37: no watcher opens a stream or publishes before the startup calls have
\* succeeded for every configured binding; when startup fails for a binding,
\* nothing has been published by this run
C37_NothingBeforeStartupCompletes ==
    /\ \A c \in configured :
          (pc[c] \in InnerLoop \cup {"close", "done"} \/ published[c] # <<>>)
              => StartupComplete
    /\ StartupFailed => \A c \in configured : published[c] = <<>>

\* the bindings the connector was built with
Bindings == IF result = <<>> \/ result[1].err # "" THEN <<>> ELSE result[1].coll

\* C38: Run starts exactly one replication task per configured binding, in
\* configuration order, and each task watches with its own binding's source
\* database and collection, cursor database and collection, capped flag and
\* stream name; once the loop has ended no binding is without its task
C38_OneTaskPerBinding ==
    /\ Len(watched) <= Len(Bindings)
    /\ \A i \in 1..Len(watched) :
          /\ watched[i].WatchedDbName = Bindings[i].dbName
          /\ watched[i].WatchedCollName = Bindings[i].collName
          /\ watched[i].ResumeTokensDbName = Bindings[i].tokensDbName
          /\ watched[i].ResumeTokensCollName = Bindings[i].tokensCollName
          /\ watched[i].ResumeTokensCollCapped = Bindings[i].tokensCollCapped
          /\ watched[i].StreamName = Bindings[i].streamName
    /\ runPc = "wait" => Len(watched) = Len(Bindings)

\* both tasks were started, for two bindings that differ in every option
C38_Witness ==
    /\ runPc = "wait"
    /\ Len(watched) = 2
    /\ watched[1].WatchedCollName = "coll1"
    /\ watched[1].ResumeTokensDbName = "tokens-db"
    /\ watched[1].ResumeTokensCollName = "tokens"
    /\ watched[1].ResumeTokensCollCapped
    /\ watched[1].StreamName = "S"
    /\ watched[2].WatchedCollName = "coll2"
    /\ watched[2].ResumeTokensDbName = defaultTokensDbName
    /\ watched[2].ResumeTokensCollName = "coll2"
    /\ ~watched[2].ResumeTokensCollCapped
    /\ watched[2].StreamName = "COLL2"

\* C39: applying defaults is idempotent: when validation-and-defaults has accepted
\* a configuration, applying it again to the result succeeds and changes no field
C39_DefaultsIdempotent ==
    Len(result) = 2
        => /\ result[2].err = ""
           /\ result[2].coll = result[1].coll
====
